---- MODULE Spec2Model ----
(***************************************************************************)
(* Conversation turn orchestration of the agent-engine chat application:   *)
(* Trigger Policy, Image Cache, Affinity Store, long-term-memory writes    *)
(* and the client's request/response handling.                             *)
(***************************************************************************)
EXTENDS Integers, FiniteSets, Sequences, TLC

(***************************************************************************)
(* Bounds of the model.                                                    *)
(***************************************************************************)
\* Number of conversation turns started over the whole run.
MaxTurns == 2

(***************************************************************************)
(* Program constants.                                                      *)
(***************************************************************************)
AFFINITY_IMAGE_THRESHOLD == 10
AFFINITY_MEMORY_THRESHOLD == 10
AFFINITY_MIN == 0
AFFINITY_MAX == 100
MAX_IMAGE_RETRIES == 1
MAX_MEMORY_RETRIES == 3
MAX_MESSAGE_LENGTH == 2000
HTTP_OK == 200
HTTP_UNPROCESSABLE == 422
HTTP_UNAVAILABLE == 503

(***************************************************************************)
(* Data contracts.                                                         *)
(***************************************************************************)
Emotions ==
  {"happy", "sad", "neutral", "surprised", "thoughtful", "embarrassed", "excited", "angry"}

Scenes == {"indoor", "outdoor", "cafe", "park", "school", "home"}

Categories == {"positive", "neutral", "negative", "expressive"}

Users == {"u1", "u2"}

\* Marks a required field that the payload does not carry.
Missing == "MISSING"

\* The absent image reference (no image generated yet) and the absent cache entry.
NoImage == 0

\* Faulty variant: excited is classified with the expressive emotions.
categoryExcitedExpressive(emotion) ==
  CASE emotion \in {"happy"} -> "positive"
    [] emotion \in {"neutral", "thoughtful"} -> "neutral"
    [] emotion \in {"sad", "angry"} -> "negative"
    [] emotion \in {"surprised", "embarrassed", "excited"} -> "expressive"

\* Emotion category classification.
category(emotion) ==
  CASE emotion \in {"happy", "excited"} -> "positive"
    [] emotion \in {"neutral", "thoughtful"} -> "neutral"
    [] emotion \in {"sad", "angry"} -> "negative"
    [] emotion \in {"surprised", "embarrassed"} -> "expressive"

Abs(n) == IF n < 0 THEN -n ELSE n

(***************************************************************************)
(* Trigger Policy.                                                         *)
(***************************************************************************)
\* Faulty variant: compares the raw emotions instead of their categories.
regenerateImageRawEmotion(prev, curr) ==
  IF curr.emotion # prev.emotion THEN TRUE
  ELSE IF curr.scene # prev.scene THEN TRUE
  ELSE Abs(curr.affinity_level - prev.affinity_level) >= AFFINITY_IMAGE_THRESHOLD

\* Image generation trigger: emotion category change, else scene change, else
\* affinity change of at least the threshold.
regenerateImage(prev, curr) ==
  IF category(curr.emotion) # category(prev.emotion) THEN TRUE
  ELSE IF curr.scene # prev.scene THEN TRUE
  ELSE IF Abs(curr.affinity_level - prev.affinity_level) >= AFFINITY_IMAGE_THRESHOLD THEN TRUE
  ELSE FALSE

\* Faulty variant: every affinity change is taken for a significant one.
writeMemoryAnyChange(prev, curr) ==
  IF curr.affinity_level # prev.affinity_level THEN TRUE
  ELSE curr.isImportantEvent

\* Memory Bank write trigger: affinity change of at least the threshold, else
\* the isImportantEvent flag of the model, trusted as it is.
writeMemory(prev, curr) ==
  IF Abs(curr.affinity_level - prev.affinity_level) >= AFFINITY_MEMORY_THRESHOLD THEN TRUE
  ELSE IF curr.isImportantEvent THEN TRUE
  ELSE FALSE

\* Faulty variant: a turn that regenerates the image writes no memory.
evaluateEitherOr(prev, curr) ==
  [regenerateImage |-> regenerateImage(prev, curr),
   writeMemory |-> ~regenerateImage(prev, curr) /\ writeMemory(prev, curr)]

\* The two triggers of a turn, each decided on its own.
evaluate(prev, curr) ==
  [regenerateImage |-> regenerateImage(prev, curr),
   writeMemory |-> writeMemory(prev, curr)]

(***************************************************************************)
(* Model output and its parsing.                                           *)
(***************************************************************************)
\* A payload as the model call returns it: json is FALSE for a payload that
\* is no JSON document, a required field may be Missing, and emotion and
\* scene are arbitrary strings.
Payload(json, dialogue, emotion, scene, affinity_level, isImportantEvent) ==
  [json |-> json, dialogue |-> dialogue, emotion |-> emotion, scene |-> scene,
   affinity_level |-> affinity_level, isImportantEvent |-> isImportantEvent]

WellFormedPayloads ==
  {Payload(TRUE, "d", "happy", "cafe", 5, FALSE),
   Payload(TRUE, "d", "excited", "cafe", 150, FALSE),
   Payload(TRUE, "d", "neutral", "indoor", -20, FALSE)}

MalformedPayloads ==
  {Payload(FALSE, "d", "happy", "cafe", 5, FALSE),
   Payload(TRUE, Missing, "happy", "cafe", 5, FALSE),
   Payload(TRUE, "d", "joyful", "cafe", 5, FALSE),
   Payload(TRUE, "d", "happy", "beach", 5, FALSE)}

Payloads == WellFormedPayloads \cup MalformedPayloads

\* The payload validates against the StructuredResponse schema.
parses(payload) ==
  /\ payload.json
  /\ payload.dialogue # Missing
  /\ payload.emotion \in Emotions
  /\ payload.scene \in Scenes

\* The record substituted when parsing fails.
DefaultRecord(prev) ==
  [dialogue |-> "", emotion |-> "neutral", scene |-> "indoor",
   affinity_level |-> 0, isImportantEvent |-> FALSE]

\* The structured response the turn works with.
parse(payload, prev) ==
  IF parses(payload)
  THEN [dialogue |-> payload.dialogue, emotion |-> payload.emotion,
        scene |-> payload.scene, affinity_level |-> payload.affinity_level,
        isImportantEvent |-> payload.isImportantEvent]
  ELSE DefaultRecord(prev)

(***************************************************************************)
(* Image Cache.                                                            *)
(***************************************************************************)
CacheKeys == Categories \X Scenes

CacheKey(emotion, scene) == <<category(emotion), scene>>

get(cache, key) == cache[key]

\* Faulty variant: the cache holds one entry, the last one registered.
putEvicting(cache, key, reference) ==
  [k \in DOMAIN cache |-> IF k = key THEN reference ELSE NoImage]

put(cache, key, reference) == [cache EXCEPT ![key] = reference]

\* Faulty variant: the key is taken from the state before the turn.
LookupKeyPrevious(prev, curr) == CacheKey(prev.emotion, prev.scene)

\* The key of a turn's lookup and generation: category of the emotion and
\* scene of the structured response.
LookupKey(prev, curr) == CacheKey(curr.emotion, curr.scene)

\* Faulty variant: a failed generation registers the previous image.
CacheAfterFailurePrevious(cache, key, previous) == put(cache, key, previous)

\* The cache after a failed generation call: nothing is registered.
CacheAfterFailure(cache, key, previous) == cache

\* Faulty variant: a triggered turn goes to generation whatever the lookup gave.
ImageBranchNoLookup(regenerate, cached) ==
  IF ~regenerate THEN "ImageSkipped" ELSE "ImageGenerating"

\* Where the turn goes after the trigger evaluation.
ImageBranch(regenerate, cached) ==
  IF ~regenerate THEN "ImageSkipped"
  ELSE IF cached # NoImage THEN "ImageCacheHit"
  ELSE "ImageGenerating"

\* Faulty variant: a failed generation discards the image shown so far.
ImageAfterFailureNone(previous) == NoImage

\* The image reference of a turn whose generation failed for good.
ImageAfterFailure(previous) == previous

\* Faulty variant: a failed generation call is retried twice.
RetryImageTwice(calls) == calls < 2 + MAX_IMAGE_RETRIES

\* A failed generation call is retried once.
RetryImage(calls) == calls < 1 + MAX_IMAGE_RETRIES

\* Faulty variant: the turn stays with the generation when no retry is left.
AfterImageFailureStuck(calls, next) == "ImageGenerating"

\* The phase after a failed generation call: the retry, or the rest of the
\* turn with the previous image.
AfterImageFailure(calls, next) ==
  IF RetryImage(calls) THEN "ImageGenerating" ELSE next

(***************************************************************************)
(* Affinity Store.                                                         *)
(***************************************************************************)
AbsentRecord == [exists |-> FALSE, affinity_level |-> 0, last_updated |-> FALSE]

\* Faulty variant: only the lower limit is enforced.
ClampLowerOnly(value) == IF value < AFFINITY_MIN THEN AFFINITY_MIN ELSE value

\* Range limit of the affinity level.
Clamp(value) ==
  IF value < AFFINITY_MIN THEN AFFINITY_MIN
  ELSE IF value > AFFINITY_MAX THEN AFFINITY_MAX
  ELSE value

\* Faulty variant: a user without a record starts in the middle of the range.
readDefaultMiddle(records, user) ==
  IF records[user].exists THEN records[user]
  ELSE [AbsentRecord EXCEPT !.affinity_level = (AFFINITY_MIN + AFFINITY_MAX) \div 2]

\* Read with the default for a user without a record.
read(records, user) ==
  IF records[user].exists THEN records[user] ELSE AbsentRecord

\* The affinity is saved only when it changed.
AffinityChanged(previous, computed) == computed # previous

\* Faulty variant: a failed save fails the turn.
ResultAfterSaveStrict(response, saved) == [response EXCEPT !.success = saved]

\* The response of a turn after the save at its end: a failed save is
\* logged and the conversation goes on.
ResultAfterSave(response, saved) == response

(***************************************************************************)
(* Long-term memory write, detached from the turn.                         *)
(***************************************************************************)
NoTask == [state |-> "none", retries |-> 0]

\* Faulty variant: one retry more before the write is abandoned.
AfterMemoryAttemptExtraRetry(task, ok) ==
  IF ok THEN [task EXCEPT !.state = "written"]
  ELSE IF task.retries <= MAX_MEMORY_RETRIES
       THEN [task EXCEPT !.retries = task.retries + 1]
       ELSE [task EXCEPT !.state = "abandoned"]

\* The task after an attempt: written, retried, or abandoned after the last retry.
AfterMemoryAttempt(task, ok) ==
  IF ok THEN [task EXCEPT !.state = "written"]
  ELSE IF task.retries < MAX_MEMORY_RETRIES
       THEN [task EXCEPT !.retries = task.retries + 1]
       ELSE [task EXCEPT !.state = "abandoned"]

\* Faulty variant: the turn waits for its memory write to finish.
TurnAwaitsWrite(tasks, t) == tasks[t].state = "pending"

\* The memory write runs asynchronously: the turn never waits for it.
TurnAwaits(tasks, t) == FALSE

(***************************************************************************)
(* Chat client: MessageInput and the reducer of ChatContext.               *)
(***************************************************************************)
\* Longest text typed into the input field; most messages of a ChatState the
\* reducer is applied to; most requests sendMessage issues.
MaxLen == 2
MaxMessages == 2
MaxRequests == 3

Null == "NULL"
Undefined == "UNDEFINED"

\* Texts are sequences of characters: a blank and a letter.
Chars == {" ", "a"}
Texts == UNION {[1..n -> Chars] : n \in 0..MaxLen}

RECURSIVE trimStart(_)
trimStart(text) ==
  IF text # <<>> /\ Head(text) = " " THEN trimStart(Tail(text)) ELSE text

RECURSIVE trimEnd(_)
trimEnd(text) ==
  IF text # <<>> /\ text[Len(text)] = " "
  THEN trimEnd(SubSeq(text, 1, Len(text) - 1))
  ELSE text

\* Faulty variant: only leading whitespace is removed.
trimLeadingOnly(text) == trimStart(text)

\* String.prototype.trim
trim(text) == trimEnd(trimStart(text))

\* new Date().toISOString()
Now == "now"

\* Faulty variant: a || b, which also replaces the empty string.
CoalesceFalsy(value, fallback) ==
  IF value \in {Null, Undefined, ""} THEN fallback ELSE value

\* a ?? b
Coalesce(value, fallback) ==
  IF value \in {Null, Undefined} THEN fallback ELSE value

initialState ==
  [messages |-> <<>>, currentImageUrl |-> "", isLoading |-> FALSE,
   isGeneratingImage |-> FALSE, affinityLevel |-> 0, sessionId |-> Null]

UserMessage(text) ==
  [role |-> "user", dialogue |-> text, narration |-> Undefined, timestamp |-> Now]

AgentMessage(response) ==
  [role |-> "agent", dialogue |-> response.dialogue, narration |-> response.narration,
   timestamp |-> response.timestamp]

\* Faulty variant: the image is not marked as being generated.
SEND_MESSAGE_START_LoadingOnly(st, action) ==
  [st EXCEPT !.isLoading = TRUE,
             !.messages = Append(@, UserMessage(action.userMessage))]

\* Faulty variant: the message is appended and the flags stay down.
SEND_MESSAGE_START_MessageOnly(st, action) ==
  [st EXCEPT !.messages = Append(@, UserMessage(action.userMessage))]

SEND_MESSAGE_START(st, action) ==
  [st EXCEPT !.isLoading = TRUE,
             !.isGeneratingImage = TRUE,
             !.messages = Append(@, UserMessage(action.userMessage))]

\* Faulty variant: the session id of the response is dropped.
SEND_MESSAGE_SUCCESS_KeepsSession(st, action) ==
  [st EXCEPT !.isLoading = FALSE,
             !.isGeneratingImage = FALSE,
             !.messages = Append(@, AgentMessage(action.response)),
             !.currentImageUrl = Coalesce(action.response.image_url, @),
             !.affinityLevel = action.response.affinity_level]

\* Faulty variant: the answer takes the place of the last message.
SEND_MESSAGE_SUCCESS_ReplacesLast(st, action) ==
  [st EXCEPT !.isLoading = FALSE,
             !.isGeneratingImage = FALSE,
             !.messages = IF @ = <<>> THEN <<AgentMessage(action.response)>>
                          ELSE [@ EXCEPT ![Len(@)] = AgentMessage(action.response)],
             !.currentImageUrl = Coalesce(action.response.image_url, @),
             !.affinityLevel = action.response.affinity_level,
             !.sessionId = action.response.session_id]

SEND_MESSAGE_SUCCESS(st, action) ==
  [st EXCEPT !.isLoading = FALSE,
             !.isGeneratingImage = FALSE,
             !.messages = Append(@, AgentMessage(action.response)),
             !.currentImageUrl = Coalesce(action.response.image_url, @),
             !.affinityLevel = action.response.affinity_level,
             !.sessionId = action.response.session_id]

\* Faulty variant: the user's message is taken back.
SEND_MESSAGE_ERROR_DropsMessage(st, action) ==
  [st EXCEPT !.isLoading = FALSE,
             !.isGeneratingImage = FALSE,
             !.messages = IF @ = <<>> THEN @ ELSE SubSeq(@, 1, Len(@) - 1)]

\* Faulty variant: the loading flags stay.
SEND_MESSAGE_ERROR_KeepsLoading(st, action) == st

\* Faulty variant: only isLoading is lowered.
SEND_MESSAGE_ERROR_LoadingOnly(st, action) == [st EXCEPT !.isLoading = FALSE]

\* Faulty variant: a failure ends the session.
SEND_MESSAGE_ERROR_DropsSession(st, action) ==
  [st EXCEPT !.isLoading = FALSE, !.isGeneratingImage = FALSE, !.sessionId = Null]

SEND_MESSAGE_ERROR(st, action) ==
  [st EXCEPT !.isLoading = FALSE, !.isGeneratingImage = FALSE]

\* Faulty variant: the session outlives the history.
CLEAR_HISTORY_KeepsSession(st, action) ==
  [initialState EXCEPT !.sessionId = st.sessionId]

CLEAR_HISTORY(st, action) == initialState

chatReducer(st, action) ==
  CASE action.type = "SEND_MESSAGE_START" -> SEND_MESSAGE_START(st, action)
    [] action.type = "SEND_MESSAGE_SUCCESS" -> SEND_MESSAGE_SUCCESS(st, action)
    [] action.type = "SEND_MESSAGE_ERROR" -> SEND_MESSAGE_ERROR(st, action)
    [] action.type = "CLEAR_HISTORY" -> CLEAR_HISTORY(st, action)
    [] OTHER -> st

(***************************************************************************)
(* State.                                                                  *)
(***************************************************************************)
VARIABLES
  pc,           \* phase of each user's turn
  tid,          \* number of the turn each user is in (0: none)
  prev,         \* Turn State: previous emotion, scene, affinity, image
  curr,         \* structured response of the turn
  degraded,     \* the turn runs on the default record
  decision,     \* outcome of the Trigger Policy
  lookup,       \* Image Cache consultation of the turn: none, hit, miss
  lookupKey,    \* key of that consultation
  image,        \* image reference of the response
  genCalls,     \* image generation calls invoked in the turn
  genFailed,    \* image generation calls of the turn that failed
  modelOutcome, \* what the model call of the turn gave: none, payload, failure
  wrote,        \* Affinity Store write at the end of the turn: none, ok, failed
  storeAtStart, \* Affinity Record when the turn began
  result,       \* the assembled turn result
  sess,         \* state known for each user's session
  client,       \* the client: idle, loading, reply, error
  store,        \* Affinity Store
  imageCache,   \* Image Cache
  nextImage,    \* images generated so far
  redundantGen, \* a generation call was invoked for a key already generated
  memTask,      \* long-term memory write of each turn
  turns,        \* turns started
  state,        \* ChatState of the ChatProvider
  prevState,    \* ChatState before the last dispatch
  lastAction,   \* the last dispatched ChatAction
  message,      \* text in the input field of MessageInput
  lastOnSend,   \* the last onSend call of MessageInput: its argument and the input
  requests,     \* conversation requests issued by sendMessage
  appliedSince, \* session ids of the responses applied since the last clearHistory
  view          \* what CharacterImageDisplay rendered last

turnVars == <<tid, prev, curr, degraded, decision, lookup, lookupKey, image, genCalls,
              genFailed, modelOutcome, wrote, storeAtStart, result>>
sharedVars == <<store, imageCache, nextImage, redundantGen, memTask, turns>>
clientVars == <<sess, client>>
uiVars == <<state, prevState, lastAction, message, lastOnSend, requests, appliedSince, view>>
vars == <<pc, turnVars, sharedVars, clientVars, uiVars>>

TurnIds == 1..MaxTurns

NoTurnState == [emotion |-> "neutral", scene |-> "indoor", affinity_level |-> 0, image |-> NoImage]
NoRecord == [dialogue |-> "", emotion |-> "neutral", scene |-> "indoor",
             affinity_level |-> 0, isImportantEvent |-> FALSE]
NoDecision == [regenerateImage |-> FALSE, writeMemory |-> FALSE]
NoKey == <<"neutral", "indoor">>
NoResult == [success |-> FALSE, dialogue |-> "", emotion |-> "neutral", scene |-> "indoor",
             image |-> NoImage, affinity_level |-> 0]
NoSession == [active |-> FALSE, emotion |-> "neutral", scene |-> "indoor",
              affinity_level |-> 0, image |-> NoImage]

\* Scenes and emotion a new session starts in.
InitialScenes == {"indoor", "cafe"}
InitialEmotions == {"neutral"}

\* Lengths of the trimmed message of a request.
MessageLengths == {0, 1, MAX_MESSAGE_LENGTH + 1}

RequestIds == 1..MaxRequests
SessionIds == {"s1", "s2"}
NoAction == [type |-> "NONE"]
NoOnSend == [input |-> <<>>, sent |-> <<>>, called |-> FALSE]
\* The response of a request that has none (yet).
NoResponse ==
  [session_id |-> Null, dialogue |-> <<>>, narration |-> "", timestamp |-> "",
   image_url |-> Undefined, affinity_level |-> 0]
NoRequest ==
  [status |-> "none", message |-> <<>>, session_id |-> Undefined, sessionIdAtSend |-> Null,
   appliedAtSend |-> {}, ok |-> FALSE, response |-> NoResponse]
NoView ==
  [rendered |-> FALSE, imageUrl |-> "", isGenerating |-> FALSE,
   skeleton |-> FALSE, img |-> FALSE, placeholder |-> FALSE, src |-> <<>>]

\* The ChatProvider after mounting, with an empty input field.
UiInit ==
  /\ state = initialState
  /\ prevState = initialState
  /\ lastAction = NoAction
  /\ message = <<>>
  /\ lastOnSend = NoOnSend
  /\ requests = [r \in RequestIds |-> NoRequest]
  /\ appliedSince = {}
  /\ view = NoView

EmptyCache == [k \in CacheKeys |-> NoImage]

\* The backend with a given Image Cache holding a given number of images.
TurnInitWith(cache, images) ==
  /\ pc = [u \in Users |-> "Idle"]
  /\ tid = [u \in Users |-> 0]
  /\ prev = [u \in Users |-> NoTurnState]
  /\ curr = [u \in Users |-> NoRecord]
  /\ degraded = [u \in Users |-> FALSE]
  /\ decision = [u \in Users |-> NoDecision]
  /\ lookup = [u \in Users |-> "none"]
  /\ lookupKey = [u \in Users |-> NoKey]
  /\ image = [u \in Users |-> NoImage]
  /\ genCalls = [u \in Users |-> 0]
  /\ genFailed = [u \in Users |-> 0]
  /\ modelOutcome = [u \in Users |-> "none"]
  /\ wrote = [u \in Users |-> "none"]
  /\ storeAtStart = [u \in Users |-> AbsentRecord]
  /\ result = [u \in Users |-> NoResult]
  /\ sess = [u \in Users |-> NoSession]
  /\ client = [u \in Users |-> "idle"]
  /\ store = [u \in Users |-> AbsentRecord]
  /\ imageCache = cache
  /\ nextImage = images
  /\ redundantGen = FALSE
  /\ memTask = [t \in TurnIds |-> NoTask]
  /\ turns = 0

TurnInit == TurnInitWith(EmptyCache, 0)

Init == TurnInit /\ UiInit

(***************************************************************************)
(* Turn Orchestrator: one action per step of processTurn.                  *)
(***************************************************************************)
\* The request passes the router's validation.
ValidMessage(length) == length > 0 /\ length <= MAX_MESSAGE_LENGTH

\* Session start: the affinity is read from the store, scene and emotion are
\* drawn at random, and the session start time is written to the record.
init_session(u, emotion, scene) ==
  /\ prev' = [prev EXCEPT ![u] = [emotion |-> emotion, scene |-> scene,
                                  affinity_level |-> read(store, u).affinity_level,
                                  image |-> NoImage]]
  /\ store' = [store EXCEPT ![u] = [exists |-> TRUE,
                                    affinity_level |-> read(store, u).affinity_level,
                                    last_updated |-> TRUE]]

\* A request arrives with a valid message: Idle -> AwaitingModel.
StartTurn(u, length, emotion, scene) ==
  /\ pc[u] = "Idle"
  /\ client[u] # "loading"
  /\ turns < MaxTurns
  /\ ValidMessage(length)
  /\ IF sess[u].active
     THEN /\ prev' = [prev EXCEPT ![u] = [emotion |-> sess[u].emotion, scene |-> sess[u].scene,
                                          affinity_level |-> sess[u].affinity_level,
                                          image |-> sess[u].image]]
          /\ store' = store
     ELSE init_session(u, emotion, scene)
  /\ storeAtStart' = [storeAtStart EXCEPT ![u] = store[u]]
  /\ turns' = turns + 1
  /\ tid' = [tid EXCEPT ![u] = turns + 1]
  /\ pc' = [pc EXCEPT ![u] = "AwaitingModel"]
  /\ client' = [client EXCEPT ![u] = "loading"]
  /\ UNCHANGED <<curr, degraded, decision, lookup, lookupKey, image, genCalls, genFailed,
                 modelOutcome, wrote, result>>
  /\ UNCHANGED <<imageCache, nextImage, redundantGen, memTask, sess>>
  /\ UNCHANGED uiVars

\* A request with an empty or an overlong message is refused by the router.
RejectRequest(u, length) ==
  /\ pc[u] = "Idle"
  /\ client[u] # "loading"
  /\ ~ValidMessage(length)
  /\ pc' = [pc EXCEPT ![u] = "Rejected"]
  /\ client' = [client EXCEPT ![u] = "loading"]
  /\ UNCHANGED <<turnVars, sharedVars, sess>>
  /\ UNCHANGED uiVars

\* The model call returns a payload: AwaitingModel -> ParseOk | ParseFallback.
ModelReturns(u, payload) ==
  /\ pc[u] = "AwaitingModel"
  /\ curr' = [curr EXCEPT ![u] = parse(payload, prev[u])]
  /\ degraded' = [degraded EXCEPT ![u] = ~parses(payload)]
  /\ modelOutcome' = [modelOutcome EXCEPT ![u] = "payload"]
  /\ pc' = [pc EXCEPT ![u] = IF parses(payload) THEN "ParseOk" ELSE "ParseFallback"]
  /\ UNCHANGED <<tid, prev, decision, lookup, lookupKey, image, genCalls, genFailed, wrote,
                 storeAtStart, result>>
  /\ UNCHANGED <<sharedVars, clientVars>>
  /\ UNCHANGED uiVars

\* The model call itself fails: the one failure that ends the turn.
ModelFails(u) ==
  /\ pc[u] = "AwaitingModel"
  /\ pc' = [pc EXCEPT ![u] = "Failed"]
  /\ modelOutcome' = [modelOutcome EXCEPT ![u] = "failure"]
  /\ UNCHANGED <<tid, prev, curr, degraded, decision, lookup, lookupKey, image, genCalls,
                 genFailed, wrote, storeAtStart, result>>
  /\ UNCHANGED <<sharedVars, clientVars>>
  /\ UNCHANGED uiVars

\* ParseOk | ParseFallback -> EvaluatingTriggers.
BeginEvaluation(u) ==
  /\ pc[u] \in {"ParseOk", "ParseFallback"}
  /\ decision' = [decision EXCEPT ![u] = evaluate(prev[u], curr[u])]
  /\ pc' = [pc EXCEPT ![u] = "EvaluatingTriggers"]
  /\ UNCHANGED <<tid, prev, curr, degraded, lookup, lookupKey, image, genCalls, genFailed,
                 modelOutcome, wrote, storeAtStart, result>>
  /\ UNCHANGED <<sharedVars, clientVars>>
  /\ UNCHANGED uiVars

\* EvaluatingTriggers -> ImageCacheHit | ImageGenerating | ImageSkipped: a
\* triggered turn consults the Image Cache under the key of its response.
ConsultCache(u) ==
  /\ pc[u] = "EvaluatingTriggers"
  /\ LET key == LookupKey(prev[u], curr[u])
         cached == get(imageCache, key)
         branch == ImageBranch(decision[u].regenerateImage, cached)
     IN /\ pc' = [pc EXCEPT ![u] = branch]
        /\ lookup' = [lookup EXCEPT ![u] =
                        IF ~decision[u].regenerateImage THEN "none"
                        ELSE IF cached # NoImage THEN "hit" ELSE "miss"]
        /\ lookupKey' = [lookupKey EXCEPT ![u] =
                           IF decision[u].regenerateImage THEN key ELSE NoKey]
        /\ image' = [image EXCEPT ![u] =
                       IF branch = "ImageCacheHit" THEN cached ELSE prev[u].image]
  /\ UNCHANGED <<tid, prev, curr, degraded, decision, genCalls, genFailed, modelOutcome,
                 wrote, storeAtStart, result>>
  /\ UNCHANGED <<sharedVars, clientVars>>
  /\ UNCHANGED uiVars

\* The phase after the image step.
MemoryBranch(u) == IF decision[u].writeMemory THEN "MemoryWriting" ELSE "MemorySkipped"

\* ImageCacheHit | ImageSkipped -> MemoryWriting | MemorySkipped.
ImageSettled(u) ==
  /\ pc[u] \in {"ImageCacheHit", "ImageSkipped"}
  /\ pc' = [pc EXCEPT ![u] = MemoryBranch(u)]
  /\ UNCHANGED <<turnVars, sharedVars, clientVars>>
  /\ UNCHANGED uiVars

\* One image generation call and its outcome. A success is saved and
\* registered in the cache; a failure is retried once, then the previous
\* image is kept.
generate_image(u, ok) ==
  /\ pc[u] = "ImageGenerating"
  /\ RetryImage(genCalls[u])
  /\ genCalls' = [genCalls EXCEPT ![u] = genCalls[u] + 1]
  /\ redundantGen' = (redundantGen \/ get(imageCache, lookupKey[u]) # NoImage)
  /\ IF ok
     THEN /\ nextImage' = nextImage + 1
          /\ imageCache' = put(imageCache, lookupKey[u], nextImage + 1)
          /\ image' = [image EXCEPT ![u] = nextImage + 1]
          /\ pc' = [pc EXCEPT ![u] = MemoryBranch(u)]
          /\ UNCHANGED genFailed
     ELSE /\ UNCHANGED nextImage
          /\ imageCache' = CacheAfterFailure(imageCache, lookupKey[u], prev[u].image)
          /\ genFailed' = [genFailed EXCEPT ![u] = genFailed[u] + 1]
          /\ image' = [image EXCEPT ![u] = ImageAfterFailure(prev[u].image)]
          /\ pc' = [pc EXCEPT ![u] = AfterImageFailure(genCalls[u] + 1, MemoryBranch(u))]
  /\ UNCHANGED <<tid, prev, curr, degraded, decision, lookup, lookupKey, modelOutcome, wrote,
                 storeAtStart, result>>
  /\ UNCHANGED <<store, memTask, turns, clientVars>>
  /\ UNCHANGED uiVars

\* MemoryWriting -> PersistingAffinity: the write is handed to a background
\* task and the turn goes on without waiting for it.
add_events_to_memory(u) ==
  /\ pc[u] = "MemoryWriting"
  /\ memTask' = [memTask EXCEPT ![tid[u]] = [state |-> "pending", retries |-> 0]]
  /\ pc' = [pc EXCEPT ![u] = "PersistingAffinity"]
  /\ UNCHANGED <<turnVars, store, imageCache, nextImage, redundantGen, turns, clientVars>>
  /\ UNCHANGED uiVars

\* MemorySkipped -> PersistingAffinity.
SkipMemory(u) ==
  /\ pc[u] = "MemorySkipped"
  /\ pc' = [pc EXCEPT ![u] = "PersistingAffinity"]
  /\ UNCHANGED <<turnVars, sharedVars, clientVars>>
  /\ UNCHANGED uiVars

\* The response assembled at the end of the turn.
TurnResult(u) ==
  [success |-> TRUE, dialogue |-> curr[u].dialogue, emotion |-> curr[u].emotion,
   scene |-> curr[u].scene, image |-> image[u],
   affinity_level |-> Clamp(curr[u].affinity_level)]

\* PersistingAffinity -> Done: a changed affinity is clamped and saved; a
\* failed save is logged and the turn goes on.
update_affinity(u, ok) ==
  /\ pc[u] = "PersistingAffinity"
  /\ ~TurnAwaits(memTask, tid[u])
  /\ IF AffinityChanged(prev[u].affinity_level, curr[u].affinity_level)
     THEN /\ wrote' = [wrote EXCEPT ![u] = IF ok THEN "ok" ELSE "failed"]
          /\ store' = IF ok
                      THEN [store EXCEPT ![u].exists = TRUE,
                                         ![u].affinity_level = Clamp(curr[u].affinity_level)]
                      ELSE store
     ELSE /\ ok
          /\ UNCHANGED <<wrote, store>>
  /\ result' = [result EXCEPT ![u] = ResultAfterSave(TurnResult(u), ok)]
  /\ pc' = [pc EXCEPT ![u] = "Done"]
  /\ UNCHANGED <<tid, prev, curr, degraded, decision, lookup, lookupKey, image, genCalls,
                 genFailed, modelOutcome, storeAtStart>>
  /\ UNCHANGED <<imageCache, nextImage, redundantGen, memTask, turns, clientVars>>
  /\ UNCHANGED uiVars

\* A background attempt of a pending memory write.
MemoryAttempt(t, ok) ==
  /\ memTask[t].state = "pending"
  /\ memTask' = [memTask EXCEPT ![t] = AfterMemoryAttempt(memTask[t], ok)]
  /\ UNCHANGED <<pc, turnVars, store, imageCache, nextImage, redundantGen, turns, clientVars>>
  /\ UNCHANGED uiVars

(***************************************************************************)
(* API boundary and client.                                                *)
(***************************************************************************)
\* Status of the response for a finished request.
StatusOf(phase) ==
  CASE phase = "Done" -> HTTP_OK
    [] phase = "Failed" -> HTTP_UNAVAILABLE
    [] phase = "Rejected" -> HTTP_UNPROCESSABLE

\* Faulty variant: only server errors count as failures.
ResponseOkBelow500(status) == status < 500

\* response.ok of the fetch API.
ResponseOk(status) == status >= 200 /\ status <= 299

\* The response reaches the client: sendConversationMessage resolves for an
\* OK status and throws otherwise; the turn state is dropped.
Respond(u) ==
  /\ pc[u] \in {"Done", "Failed", "Rejected"}
  /\ client' = [client EXCEPT ![u] = IF ResponseOk(StatusOf(pc[u])) THEN "reply" ELSE "error"]
  /\ sess' = [sess EXCEPT ![u] =
                IF pc[u] = "Done"
                THEN [active |-> TRUE, emotion |-> result[u].emotion, scene |-> result[u].scene,
                      affinity_level |-> result[u].affinity_level, image |-> result[u].image]
                ELSE sess[u]]
  /\ pc' = [pc EXCEPT ![u] = "Idle"]
  /\ tid' = [tid EXCEPT ![u] = 0]
  /\ prev' = [prev EXCEPT ![u] = NoTurnState]
  /\ curr' = [curr EXCEPT ![u] = NoRecord]
  /\ degraded' = [degraded EXCEPT ![u] = FALSE]
  /\ decision' = [decision EXCEPT ![u] = NoDecision]
  /\ lookup' = [lookup EXCEPT ![u] = "none"]
  /\ lookupKey' = [lookupKey EXCEPT ![u] = NoKey]
  /\ image' = [image EXCEPT ![u] = NoImage]
  /\ genCalls' = [genCalls EXCEPT ![u] = 0]
  /\ genFailed' = [genFailed EXCEPT ![u] = 0]
  /\ modelOutcome' = [modelOutcome EXCEPT ![u] = "none"]
  /\ wrote' = [wrote EXCEPT ![u] = "none"]
  /\ storeAtStart' = [storeAtStart EXCEPT ![u] = AbsentRecord]
  /\ result' = [result EXCEPT ![u] = NoResult]
  /\ UNCHANGED sharedVars
  /\ UNCHANGED uiVars

\* clearHistory: the client forgets the session.
ClearHistory(u) ==
  /\ pc[u] = "Idle"
  /\ client[u] # "loading"
  /\ sess[u].active
  /\ sess' = [sess EXCEPT ![u] = NoSession]
  /\ client' = [client EXCEPT ![u] = "idle"]
  /\ UNCHANGED <<pc, turnVars, sharedVars>>
  /\ UNCHANGED uiVars

\* The reference deployment serves one user.
SingleUser == {"u1"}

Next ==
  \/ \E u \in SingleUser, length \in MessageLengths, e \in InitialEmotions, s \in InitialScenes :
       StartTurn(u, length, e, s)
  \/ \E u \in SingleUser, length \in MessageLengths : RejectRequest(u, length)
  \/ \E u \in SingleUser, payload \in Payloads : ModelReturns(u, payload)
  \/ \E u \in SingleUser : ModelFails(u)
  \/ \E u \in SingleUser : BeginEvaluation(u)
  \/ \E u \in SingleUser : ConsultCache(u)
  \/ \E u \in SingleUser : ImageSettled(u)
  \/ \E u \in SingleUser, ok \in BOOLEAN : generate_image(u, ok)
  \/ \E u \in SingleUser : add_events_to_memory(u)
  \/ \E u \in SingleUser : SkipMemory(u)
  \/ \E u \in SingleUser, ok \in BOOLEAN : update_affinity(u, ok)
  \/ \E t \in TurnIds, ok \in BOOLEAN : MemoryAttempt(t, ok)
  \/ \E u \in SingleUser : Respond(u)
  \/ \E u \in SingleUser : ClearHistory(u)

Spec == Init /\ [][Next]_vars

(***************************************************************************)
(* Overlapping turns of two users ("two tabs") on the shared Image Cache.  *)
(***************************************************************************)
\* Model outputs of the overlapping turns.
OverlapPayloads == {Payload(TRUE, "d", "happy", "cafe", 5, FALSE)}

NextOverlap ==
  \/ \E u \in Users, e \in InitialEmotions, s \in InitialScenes : StartTurn(u, 1, e, s)
  \/ \E u \in Users, payload \in OverlapPayloads : ModelReturns(u, payload)
  \/ \E u \in Users : BeginEvaluation(u)
  \/ \E u \in Users : ConsultCache(u)
  \/ \E u \in Users : ImageSettled(u)
  \/ \E u \in Users, ok \in BOOLEAN : generate_image(u, ok)
  \/ \E u \in Users : SkipMemory(u)
  \/ \E u \in Users : update_affinity(u, TRUE)
  \/ \E u \in Users : Respond(u)

SpecOverlap == Init /\ [][NextOverlap]_vars

(***************************************************************************)
(* The Trigger Policy on its own: every pair of turn states of the sets    *)
(* below is put before the evaluation step.                                *)
(***************************************************************************)
PolicyScenes == {"indoor", "cafe", "park"}
PolicyPrevAffinities == {20, 30, 40}
PolicyCurrAffinities == {10, 21, 25, 32, 40, 52}

PolicyPrev ==
  [emotion : Emotions, scene : PolicyScenes, affinity_level : PolicyPrevAffinities,
   image : {NoImage}]

PolicyCurr ==
  [dialogue : {"d"}, emotion : Emotions, scene : PolicyScenes,
   affinity_level : PolicyCurrAffinities, isImportantEvent : BOOLEAN]

InitPolicy ==
  /\ pc = [u \in Users |-> IF u = "u1" THEN "ParseOk" ELSE "Idle"]
  /\ tid = [u \in Users |-> IF u = "u1" THEN 1 ELSE 0]
  /\ \E p \in PolicyPrev : prev = [u \in Users |-> IF u = "u1" THEN p ELSE NoTurnState]
  /\ \E c \in PolicyCurr : curr = [u \in Users |-> IF u = "u1" THEN c ELSE NoRecord]
  /\ degraded = [u \in Users |-> FALSE]
  /\ decision = [u \in Users |-> NoDecision]
  /\ lookup = [u \in Users |-> "none"]
  /\ lookupKey = [u \in Users |-> NoKey]
  /\ image = [u \in Users |-> NoImage]
  /\ genCalls = [u \in Users |-> 0]
  /\ genFailed = [u \in Users |-> 0]
  /\ modelOutcome = [u \in Users |-> IF u = "u1" THEN "payload" ELSE "none"]
  /\ wrote = [u \in Users |-> "none"]
  /\ storeAtStart = [u \in Users |-> AbsentRecord]
  /\ result = [u \in Users |-> NoResult]
  /\ sess = [u \in Users |-> NoSession]
  /\ client = [u \in Users |-> IF u = "u1" THEN "loading" ELSE "idle"]
  /\ store = [u \in Users |-> AbsentRecord]
  /\ imageCache = [k \in CacheKeys |-> NoImage]
  /\ nextImage = 0
  /\ redundantGen = FALSE
  /\ memTask = [t \in TurnIds |-> NoTask]
  /\ turns = 1
  /\ UiInit

NextPolicy == BeginEvaluation("u1")

SpecPolicy == InitPolicy /\ [][NextPolicy]_vars

(***************************************************************************)
(* Progress of a turn: the steps of a turn that has its model output are   *)
(* taken; the model call and the background memory writes are left to      *)
(* themselves.                                                             *)
(***************************************************************************)
MaxLiveTurns == 1

\* The cache of a fresh process, and the cache after an image was generated
\* for a happy or excited character in the cafe.
LiveCaches == {<<EmptyCache, 0>>, <<put(EmptyCache, <<"positive", "cafe">>, 1), 1>>}

InitLive ==
  /\ \E c \in LiveCaches : TurnInitWith(c[1], c[2])
  /\ UiInit

TurnStep(u) ==
  \/ BeginEvaluation(u)
  \/ ConsultCache(u)
  \/ ImageSettled(u)
  \/ \E ok \in BOOLEAN : generate_image(u, ok)
  \/ add_events_to_memory(u)
  \/ SkipMemory(u)
  \/ \E ok \in BOOLEAN : update_affinity(u, ok)

NextLive ==
  \/ \E u \in SingleUser, e \in InitialEmotions, s \in InitialScenes :
       turns < MaxLiveTurns /\ StartTurn(u, 1, e, s)
  \/ \E u \in SingleUser, payload \in Payloads : ModelReturns(u, payload)
  \/ \E u \in SingleUser : ModelFails(u)
  \/ \E u \in SingleUser : TurnStep(u)
  \/ \E t \in TurnIds, ok \in BOOLEAN : MemoryAttempt(t, ok)
  \/ \E u \in SingleUser : Respond(u)

SpecLive ==
  /\ InitLive
  /\ [][NextLive]_vars
  /\ \A u \in SingleUser : WF_vars(TurnStep(u))

\* The background task of a pending memory write runs its attempts.
SpecMemory ==
  /\ InitLive
  /\ [][NextLive]_vars
  /\ \A t \in TurnIds : WF_vars(\E ok \in BOOLEAN : MemoryAttempt(t, ok))

(***************************************************************************)
(* Chat client: ChatProvider, MessageInput and the requests in flight.     *)
(***************************************************************************)
backendVars == <<pc, turnVars, sharedVars, clientVars>>

\* dispatch of useReducer
Dispatch(action) ==
  /\ state' = chatReducer(state, action)
  /\ prevState' = state
  /\ lastAction' = action

\* The request sendConversationMessage posts for a message.
ConversationRequest(text) ==
  [status |-> "pending", message |-> text,
   session_id |-> Coalesce(state.sessionId, Undefined),
   sessionIdAtSend |-> state.sessionId, appliedAtSend |-> appliedSince,
   ok |-> FALSE, response |-> NoResponse]

\* sendMessage up to its await: the user's message is dispatched and the
\* request is posted.
sendMessage(text) ==
  /\ \E r \in RequestIds :
       /\ requests[r].status = "none"
       /\ \A q \in RequestIds : q < r => requests[q].status # "none"
       /\ requests' = [requests EXCEPT ![r] = ConversationRequest(text)]
  /\ Dispatch([type |-> "SEND_MESSAGE_START", userMessage |-> text])
  /\ UNCHANGED <<appliedSince, view>>

\* Faulty variant: only an empty message makes handleSend return.
handleSendReturnsOnEmpty(trimmed, isLoading) == trimmed = <<>>

\* The early return of handleSend.
handleSendReturns(trimmed, isLoading) == trimmed = <<>> \/ isLoading

\* handleSend of MessageInput.
handleSend ==
  LET trimmed == trim(message) IN
    IF handleSendReturns(trimmed, state.isLoading)
    THEN UNCHANGED vars
    ELSE /\ sendMessage(trimmed)
         /\ lastOnSend' = [input |-> message, sent |-> trimmed, called |-> TRUE]
         /\ message' = <<>>
         /\ UNCHANGED backendVars

\* onChange of the input field, which is disabled while loading.
onChange(text) ==
  /\ ~state.isLoading
  /\ message' = text
  /\ UNCHANGED <<state, prevState, lastAction, lastOnSend, requests, appliedSince, view,
               backendVars>>

\* onClick of the send button, which is disabled while loading or empty.
onClick ==
  /\ ~(state.isLoading \/ trim(message) = <<>>)
  /\ handleSend

\* handleKeyDown of MessageInput.
handleKeyDown(key, shiftKey) ==
  IF key = "Enter" /\ ~shiftKey THEN handleSend ELSE UNCHANGED vars

\* Responses of the conversation endpoint to a request: a request without a
\* session id gets one, a request with a session id gets it back.
ClientResponses(request) ==
  [session_id : IF request.session_id = Undefined THEN SessionIds ELSE {request.session_id},
   dialogue : {<<"d">>}, narration : {"n"}, timestamp : {"t"},
   image_url : {Undefined, "img1"}, affinity_level : {50}]

\* The promise of sendConversationMessage settles: with the response, or
\* with an error for a status that is not OK or a failed fetch.
fetchSettles(r, ok, response) ==
  /\ requests[r].status = "pending"
  /\ requests' = [requests EXCEPT ![r].status = "settled", ![r].ok = ok,
                                  ![r].response = IF ok THEN response ELSE NoResponse]
  /\ UNCHANGED <<state, prevState, lastAction, message, lastOnSend, appliedSince, view,
               backendVars>>

\* sendMessage after its await: success or error is dispatched.
sendMessageResumes(r) ==
  /\ requests[r].status = "settled"
  /\ requests' = [requests EXCEPT ![r] = [NoRequest EXCEPT !.status = "done"]]
  /\ IF requests[r].ok
     THEN /\ Dispatch([type |-> "SEND_MESSAGE_SUCCESS", response |-> requests[r].response])
          /\ appliedSince' = appliedSince \cup {requests[r].response.session_id}
     ELSE /\ Dispatch([type |-> "SEND_MESSAGE_ERROR"])
          /\ UNCHANGED appliedSince
  /\ UNCHANGED <<message, lastOnSend, view, backendVars>>

\* clearHistory of the ChatProvider.
clearHistory ==
  /\ Dispatch([type |-> "CLEAR_HISTORY"])
  /\ appliedSince' = {}
  /\ UNCHANGED <<message, lastOnSend, requests, view, backendVars>>

\* MessageInput hands a message to sendMessage, which it does only while
\* the client is not loading.
onSend(text) ==
  /\ ~state.isLoading
  /\ sendMessage(text)
  /\ UNCHANGED <<message, lastOnSend, backendVars>>

\* The message of the turns of the client.
ClientTexts == {<<"a">>}

NextClient ==
  \/ \E text \in ClientTexts : onSend(text)
  \/ \E r \in RequestIds, ok \in BOOLEAN :
       \E response \in ClientResponses(requests[r]) : fetchSettles(r, ok, response)
  \/ \E r \in RequestIds : sendMessageResumes(r)
  \/ clearHistory

\* The continuation of a settled request is run.
SpecClient ==
  /\ Init
  /\ [][NextClient]_vars
  /\ WF_vars(\E r \in RequestIds : sendMessageResumes(r))

(***************************************************************************)
(* MessageInput under ChatPage: every text is typed, and sent by the       *)
(* button and by the keys.                                                 *)
(***************************************************************************)
InputResponses(request) ==
  {response \in ClientResponses(request) :
     response.image_url = Undefined /\ response.session_id # "s2"}

NextInput ==
  \/ \E text \in Texts : onChange(text)
  \/ onClick
  \/ \E key \in {"Enter", "a"}, shiftKey \in BOOLEAN : handleKeyDown(key, shiftKey)
  \/ \E r \in RequestIds, ok \in BOOLEAN :
       \E response \in InputResponses(requests[r]) : fetchSettles(r, ok, response)
  \/ \E r \in RequestIds : sendMessageResumes(r)

SpecInput == Init /\ [][NextInput]_vars

(***************************************************************************)
(* The reducer on its own: every ChatState of the set below is put before  *)
(* every action.                                                           *)
(***************************************************************************)
ReducerMessages ==
  {UserMessage(<<"a">>),
   [role |-> "agent", dialogue |-> <<"d">>, narration |-> "n", timestamp |-> "t"]}

ChatStates ==
  [messages : {<<>>} \cup {<<m>> : m \in ReducerMessages},
   currentImageUrl : {"", "img1"}, isLoading : BOOLEAN, isGeneratingImage : BOOLEAN,
   affinityLevel : {0, 50}, sessionId : {Null, "s1"}]

ReducerResponses ==
  [session_id : SessionIds, dialogue : {<<"d">>}, narration : {"n"}, timestamp : {"t"},
   image_url : {Undefined, Null, "", "img2"}, affinity_level : {0, 70}]

ChatActions ==
  {[type |-> "SEND_MESSAGE_START", userMessage |-> text] : text \in {<<"a">>, <<" ", "a">>}}
    \cup {[type |-> "SEND_MESSAGE_SUCCESS", response |-> response] :
            response \in ReducerResponses}
    \cup {[type |-> "SEND_MESSAGE_ERROR"], [type |-> "CLEAR_HISTORY"]}

InitReducer ==
  /\ TurnInit
  /\ state \in ChatStates
  /\ prevState = state
  /\ lastAction = NoAction
  /\ message = <<>>
  /\ lastOnSend = NoOnSend
  /\ requests = [r \in RequestIds |-> NoRequest]
  /\ appliedSince = {}
  /\ view = NoView

NextReducer ==
  \E action \in ChatActions :
    /\ Len(state.messages) < MaxMessages
    /\ Dispatch(action)
    /\ UNCHANGED <<message, lastOnSend, requests, appliedSince, view, backendVars>>

SpecReducer == InitReducer /\ [][NextReducer]_vars

\* The reducer run from initialState: every sequence of the actions.
SpecReducerRun == Init /\ [][NextReducer]_vars

(***************************************************************************)
(* MessageInput on its own, as its tests mount it: the isLoading prop is   *)
(* set by the parent at will and change events are fired at the field.     *)
(***************************************************************************)
\* The parent renders MessageInput with an isLoading prop.
renderMessageInput(isLoading) ==
  /\ state' = [state EXCEPT !.isLoading = isLoading]
  /\ UNCHANGED <<prevState, lastAction, message, lastOnSend, requests, appliedSince, view,
                 backendVars>>

\* fireEvent.change on the input field: the onChange handler runs.
fireEventChange(text) ==
  /\ message' = text
  /\ UNCHANGED <<state, prevState, lastAction, lastOnSend, requests, appliedSince, view,
                 backendVars>>

NextMessageInput ==
  \/ \E isLoading \in BOOLEAN : renderMessageInput(isLoading)
  \/ \E text \in Texts : fireEventChange(text)
  \/ onClick
  \/ \E key \in {"Enter", "a"}, shiftKey \in BOOLEAN : handleKeyDown(key, shiftKey)

SpecMessageInput == Init /\ [][NextMessageInput]_vars

(***************************************************************************)
(* CharacterImageDisplay under ChatPage. The component is in the sources   *)
(* in two versions; a build has one of them.                               *)
(***************************************************************************)
API_BASE_URL == "http://localhost:8000"

\* The image paths that start with http.
HttpUrls == {"http://cdn/img3"}

\* Truthiness of an image URL in JavaScript.
Truthy(value) == value \notin {"", Null, Undefined}

\* The parts of the URL the image is loaded from.
resolveImageUrl(imagePath) ==
  IF imagePath \in HttpUrls THEN <<imagePath>> ELSE <<API_BASE_URL, imagePath>>

Rendered(imageUrl, isGenerating, element, src) ==
  [rendered |-> TRUE, imageUrl |-> imageUrl, isGenerating |-> isGenerating,
   skeleton |-> element = "Skeleton", img |-> element = "img",
   placeholder |-> element = "span", src |-> src]

\* The version that resolves the image path.
CharacterImageDisplay(imageUrl, isGenerating) ==
  IF isGenerating /\ ~Truthy(imageUrl)
  THEN Rendered(imageUrl, isGenerating, "Skeleton", <<>>)
  ELSE IF Truthy(imageUrl)
       THEN Rendered(imageUrl, isGenerating, "img", resolveImageUrl(imageUrl))
       ELSE Rendered(imageUrl, isGenerating, "span", <<>>)

\* The version that takes the image URL as it is.
CharacterImageDisplayUnresolved(imageUrl, isGenerating) ==
  IF isGenerating
  THEN Rendered(imageUrl, isGenerating, "Skeleton", <<>>)
  ELSE IF Truthy(imageUrl)
       THEN Rendered(imageUrl, isGenerating, "img", <<imageUrl>>)
       ELSE Rendered(imageUrl, isGenerating, "span", <<>>)

\* ChatPage renders the component with the image and the flag of the state.
ChatPage ==
  /\ view' \in {CharacterImageDisplay(state.currentImageUrl, state.isGeneratingImage),
                CharacterImageDisplayUnresolved(state.currentImageUrl,
                                                state.isGeneratingImage)}
  /\ UNCHANGED <<state, prevState, lastAction, message, lastOnSend, requests, appliedSince,
                 backendVars>>

ViewStates ==
  [messages : {<<>>}, currentImageUrl : {"", "img1", "http://cdn/img3"},
   isLoading : BOOLEAN, isGeneratingImage : BOOLEAN, affinityLevel : {0},
   sessionId : {Null, "s1"}]

InitView ==
  /\ TurnInit
  /\ state \in ViewStates
  /\ prevState = state
  /\ lastAction = NoAction
  /\ message = <<>>
  /\ lastOnSend = NoOnSend
  /\ requests = [r \in RequestIds |-> NoRequest]
  /\ appliedSince = {}
  /\ view = NoView

NextView ==
  \/ NextReducer
  \/ ChatPage

SpecView == InitView /\ [][NextView]_vars

(***************************************************************************)
(* sendMessage of the ChatContext called with any message.                 *)
(***************************************************************************)
\* A message one character longer than the request admits.
LongText == [i \in 1..(MAX_MESSAGE_LENGTH + 1) |-> "a"]

SendTexts == {<<>>, <<"a">>, LongText}

\* A consumer of useChat calls sendMessage.
useChat(text) ==
  /\ sendMessage(text)
  /\ UNCHANGED <<message, lastOnSend, backendVars>>

NextSend ==
  \/ \E text \in SendTexts : useChat(text)
  \/ \E r \in RequestIds, ok \in BOOLEAN :
       \E response \in InputResponses(requests[r]) : fetchSettles(r, ok, response)
  \/ \E r \in RequestIds : sendMessageResumes(r)

SpecSend == Init /\ [][NextSend]_vars

(***************************************************************************)
(* Properties.                                                             *)
(***************************************************************************)
\* The turns whose triggers have been evaluated.
Evaluated(u) == pc[u] = "EvaluatingTriggers"

AffinityDelta(u) == curr[u].affinity_level - prev[u].affinity_level

\* C1: for every pair of previous and current turn state, the policy asks for
\* image regeneration exactly when the emotion category changed, or the scene
\* changed, or the affinity moved by at least 10 points; a change of emotion
\* inside one category (happy to excited) with the same scene and a smaller
\* affinity move asks for none.
C1_RegenerateImageIff ==
  \A u \in Users :
    Evaluated(u) =>
      /\ decision[u].regenerateImage <=>
           \/ category(curr[u].emotion) # category(prev[u].emotion)
           \/ curr[u].scene # prev[u].scene
           \/ AffinityDelta(u) >= 10
           \/ AffinityDelta(u) <= -10
      /\ ( /\ prev[u].emotion = "happy"
           /\ curr[u].emotion = "excited"
           /\ curr[u].scene = prev[u].scene
           /\ AffinityDelta(u) < 10
           /\ AffinityDelta(u) > -10 ) => ~decision[u].regenerateImage

\* happy to excited, same scene, affinity 30 to 32: no regeneration.
C1_Witness ==
  \E u \in Users :
    /\ Evaluated(u)
    /\ prev[u].emotion = "happy" /\ curr[u].emotion = "excited"
    /\ prev[u].scene = curr[u].scene
    /\ prev[u].affinity_level = 30 /\ curr[u].affinity_level = 32
    /\ ~decision[u].regenerateImage

Finished(u) == pc[u] = "Done"

\* C3: a turn whose model output could not be parsed still succeeds, and its
\* record has emotion neutral, the default scene, an empty dialogue and the
\* previous affinity of the turn (not 0, not a value of the model).
C3_FallbackKeepsPreviousAffinity ==
  \A u \in Users :
    (Finished(u) /\ degraded[u]) =>
      /\ result[u].success
      /\ result[u].emotion = "neutral"
      /\ result[u].scene = "indoor"
      /\ result[u].dialogue = ""
      /\ result[u].affinity_level = prev[u].affinity_level

\* C4: when the generation call and its retry both failed, the turn still
\* succeeds and its image reference is the previous image reference.
C4_FailedGenerationKeepsPreviousImage ==
  \A u \in Users :
    (Finished(u) /\ genFailed[u] = 2) =>
      /\ genCalls[u] = 2
      /\ result[u].success
      /\ result[u].image = prev[u].image
      /\ ResponseOk(StatusOf(pc[u]))

\* Both calls failed in a turn that had an image before.
C4_Witness ==
  \E u \in Users :
    /\ Finished(u)
    /\ genFailed[u] = 2
    /\ prev[u].image # NoImage
    /\ result[u].image = prev[u].image

\* A memory write of some turn was given up.
SomeWriteAbandoned == \E t \in TurnIds : memTask[t].state = "abandoned"

\* C5: a turn fails only when the model call itself failed; a malformed
\* output, a failed image generation and a failed memory write never make it
\* fail. The client takes its error path exactly for a response whose status
\* is not OK, and the reply path for every other response.
C5_OnlyModelFailureFails ==
  /\ [](\A u \in Users :
          /\ pc[u] = "Failed" => modelOutcome[u] = "failure"
          /\ (degraded[u] \/ genFailed[u] > 0) => pc[u] # "Failed"
          /\ Finished(u) => result[u].success)
  /\ [][\A u \in Users :
          (pc[u] \in {"Done", "Failed", "Rejected"} /\ pc'[u] = "Idle") =>
            /\ client'[u] = "error" <=> pc[u] \in {"Failed", "Rejected"}
            /\ client'[u] = "reply" <=> pc[u] = "Done"]_vars

\* A turn with a malformed output and two failed generation calls is done,
\* after a memory write was given up.
C5_Witness ==
  \E u \in Users :
    /\ Finished(u)
    /\ degraded[u]
    /\ genFailed[u] = 2
    /\ SomeWriteAbandoned

C8_StoredAffinityClamped ==
  \A u \in Users :
    /\ store[u].affinity_level >= 0
    /\ store[u].affinity_level <= 100
    /\ (Finished(u) /\ wrote[u] = "ok") =>
         /\ curr[u].affinity_level > 100 => store[u].affinity_level = 100
         /\ curr[u].affinity_level < 0 => store[u].affinity_level = 0
         /\ curr[u].affinity_level \in 0..100 =>
              store[u].affinity_level = curr[u].affinity_level

\* A computed 150 was stored as 100.
C8_Witness ==
  \E u \in Users :
    /\ Finished(u)
    /\ wrote[u] = "ok"
    /\ curr[u].affinity_level = 150
    /\ store[u].affinity_level = 100

\* C9: at the end of a turn the store is written exactly when the computed
\* affinity differs from the previous one; when they are equal, as in every
\* parse fallback turn, the turn leaves the stored affinity as it was.
C9_WrittenIffChanged ==
  \A u \in Users :
    Finished(u) =>
      /\ wrote[u] # "none" <=> curr[u].affinity_level # prev[u].affinity_level
      /\ curr[u].affinity_level = prev[u].affinity_level =>
           store[u].affinity_level = storeAtStart[u].affinity_level
      /\ degraded[u] =>
           /\ curr[u].affinity_level = prev[u].affinity_level
           /\ wrote[u] = "none"
           /\ store[u].affinity_level = storeAtStart[u].affinity_level

\* C10: the turn does not wait for its memory write: with the write pending
\* the step to Done can be taken, and no attempt of a write, successful or
\* not, changes a turn, its result or what the client got.
C10_MemoryWriteDetached ==
  /\ [](\A u \in Users : pc[u] = "PersistingAffinity" => ENABLED update_affinity(u, TRUE))
  /\ [][(\E t \in TurnIds : memTask'[t] # memTask[t] /\ memTask[t].state = "pending") =>
          UNCHANGED <<pc, result, degraded, wrote, store, sess, client>>]_vars

\* A turn is done and succeeded while its memory write is pending.
C10_Witness ==
  \E u \in Users :
    /\ Finished(u)
    /\ result[u].success
    /\ tid[u] \in TurnIds
    /\ decision[u].writeMemory
    /\ memTask[tid[u]].state = "pending"

\* The turn has its model output.
Parsed(u) == pc[u] \in {"ParseOk", "ParseFallback"}

\* C11: every turn that started with a valid input and whose model call
\* returned, with a well-formed or a malformed payload, reaches Done,
\* whatever the cache lookup, the image generation, the memory write and the
\* affinity write give; it stops in no other state and never fails.
C11_TurnReachesDone ==
  /\ \A u \in Users : Parsed(u) ~> Finished(u)
  /\ [](\A u \in Users : modelOutcome[u] = "payload" => pc[u] \notin {"Failed", "Rejected"})

\* A degraded turn whose two generation calls failed is done.
C11_Witness ==
  \E u \in Users :
    /\ Finished(u)
    /\ modelOutcome[u] = "payload"
    /\ degraded[u]
    /\ genFailed[u] = 2
    /\ ~SomeWriteAbandoned

\* A request is posted in the step.
Posted(r) == requests[r].status = "none" /\ requests'[r].status = "pending"

\* text is input without blanks at its two ends.
Stripped(input, text) ==
  /\ text # <<>>
  /\ text[1] # " "
  /\ text[Len(text)] # " "
  /\ \E i, j \in 0..Len(input) :
       /\ i + Len(text) + j = Len(input)
       /\ text = SubSeq(input, i + 1, i + Len(text))
       /\ \A k \in 1..Len(input) : (k <= i \/ k > i + Len(text)) => input[k] = " "

\* C12: MessageInput calls onSend only with the trimmed input text and only
\* when that text is not empty, by the button and by the Enter key alike: no
\* request is posted for a message that is empty after trimming, and every
\* message handed to sendMessage is non-empty without leading or trailing
\* whitespace.
C12_OnSendTrimmedNonEmpty ==
  /\ [](lastOnSend.called => Stripped(lastOnSend.input, lastOnSend.sent))
  /\ [][\A r \in RequestIds :
          Posted(r) =>
            /\ lastOnSend'.called
            /\ lastOnSend'.input = message
            /\ requests'[r].message = lastOnSend'.sent
            /\ Stripped(message, requests'[r].message)
            /\ ~state.isLoading]_vars

\* The input " a" was sent as "a".
C12_Witness ==
  /\ lastOnSend.called
  /\ lastOnSend.input = <<" ", "a">>
  /\ lastOnSend.sent = <<"a">>
  /\ \E r \in RequestIds : requests[r].status = "pending" /\ requests[r].message = <<"a">>

\* C13: whenever a request issued by sendMessage is neither answered nor
\* failed, state.isLoading is true.
C13_LoadingWhilePending ==
  \A r \in RequestIds : requests[r].status = "pending" => state.isLoading

\* The last dispatch appended exactly one message to the end of messages.
AppendedOne ==
  /\ Len(state.messages) = Len(prevState.messages) + 1
  /\ SubSeq(state.messages, 1, Len(prevState.messages)) = prevState.messages

LastMessage == state.messages[Len(state.messages)]

\* C14: from any state, SEND_MESSAGE_START sets isLoading and
\* isGeneratingImage, appends exactly one message of role user with the given
\* text, and leaves currentImageUrl, affinityLevel and sessionId as they were.
C14_StartEffect ==
  lastAction.type = "SEND_MESSAGE_START" =>
    /\ state.isLoading
    /\ state.isGeneratingImage
    /\ AppendedOne
    /\ LastMessage.role = "user"
    /\ LastMessage.dialogue = lastAction.userMessage
    /\ state.currentImageUrl = prevState.currentImageUrl
    /\ state.affinityLevel = prevState.affinityLevel
    /\ state.sessionId = prevState.sessionId

\* SEND_MESSAGE_START was applied to a state with a session, an image and a
\* message, and neither flag set.
C14_Witness ==
  /\ lastAction.type = "SEND_MESSAGE_START"
  /\ ~prevState.isLoading
  /\ ~prevState.isGeneratingImage
  /\ prevState.messages # <<>>
  /\ prevState.sessionId = "s1"
  /\ prevState.currentImageUrl = "img1"
  /\ state.isGeneratingImage

\* C15: from any state, SEND_MESSAGE_SUCCESS clears isLoading and
\* isGeneratingImage, appends exactly one message of role agent with the
\* dialogue, narration and timestamp of the response, and takes affinityLevel
\* and sessionId from the response.
C15_SuccessEffect ==
  lastAction.type = "SEND_MESSAGE_SUCCESS" =>
    /\ ~state.isLoading
    /\ ~state.isGeneratingImage
    /\ AppendedOne
    /\ LastMessage.role = "agent"
    /\ LastMessage.dialogue = lastAction.response.dialogue
    /\ LastMessage.narration = lastAction.response.narration
    /\ LastMessage.timestamp = lastAction.response.timestamp
    /\ state.affinityLevel = lastAction.response.affinity_level
    /\ state.sessionId = lastAction.response.session_id

\* A response of session s2 with affinity 70 was applied to a loading state
\* of session s1.
C15_Witness ==
  /\ lastAction.type = "SEND_MESSAGE_SUCCESS"
  /\ prevState.isLoading
  /\ prevState.isGeneratingImage
  /\ prevState.sessionId = "s1"
  /\ lastAction.response.session_id = "s2"
  /\ state.sessionId = "s2"
  /\ state.affinityLevel = 70

\* The response carries an image.
Delivered(response) == response.image_url \notin {Undefined, Null}

\* C16: currentImageUrl changes only by a SEND_MESSAGE_SUCCESS whose response
\* has an image_url, which it becomes, or by CLEAR_HISTORY; a success without
\* image_url, SEND_MESSAGE_START and SEND_MESSAGE_ERROR leave it as it was.
C16_ImageCarriedOver ==
  /\ state.currentImageUrl # prevState.currentImageUrl =>
       \/ lastAction.type = "SEND_MESSAGE_SUCCESS" /\ Delivered(lastAction.response)
       \/ lastAction.type = "CLEAR_HISTORY"
  /\ (lastAction.type = "SEND_MESSAGE_SUCCESS" /\ Delivered(lastAction.response)) =>
       state.currentImageUrl = lastAction.response.image_url
  /\ (lastAction.type = "SEND_MESSAGE_SUCCESS" /\ ~Delivered(lastAction.response)) =>
       state.currentImageUrl = prevState.currentImageUrl
  /\ lastAction.type \in {"SEND_MESSAGE_START", "SEND_MESSAGE_ERROR"} =>
       state.currentImageUrl = prevState.currentImageUrl

\* A success without image_url left the image img1 in place.
C16_Witness ==
  /\ lastAction.type = "SEND_MESSAGE_SUCCESS"
  /\ lastAction.response.image_url = Undefined
  /\ prevState.currentImageUrl = "img1"
  /\ state.currentImageUrl = "img1"

\* C17: from any state, SEND_MESSAGE_ERROR clears isLoading and
\* isGeneratingImage and leaves messages, affinityLevel, sessionId and
\* currentImageUrl as they were.
C17_ErrorEffect ==
  lastAction.type = "SEND_MESSAGE_ERROR" =>
    /\ ~state.isLoading
    /\ ~state.isGeneratingImage
    /\ state.messages = prevState.messages
    /\ state.affinityLevel = prevState.affinityLevel
    /\ state.sessionId = prevState.sessionId
    /\ state.currentImageUrl = prevState.currentImageUrl

\* The error was applied to a loading state whose last message is the user's.
C17_Witness ==
  /\ lastAction.type = "SEND_MESSAGE_ERROR"
  /\ prevState.isLoading
  /\ prevState.isGeneratingImage
  /\ prevState.messages # <<>>
  /\ LastMessage.role = "user"
  /\ ~state.isLoading

\* C18: from any state, CLEAR_HISTORY gives initialState: no messages, an
\* empty currentImageUrl, both flags false, affinityLevel 0 and sessionId
\* null; applied twice it gives what it gives applied once.
C18_ClearGivesInitialState ==
  lastAction.type = "CLEAR_HISTORY" =>
    /\ state.messages = <<>>
    /\ state.currentImageUrl = ""
    /\ ~state.isLoading
    /\ ~state.isGeneratingImage
    /\ state.affinityLevel = 0
    /\ state.sessionId = Null
    /\ state = initialState
    /\ chatReducer(state, lastAction) = state
    /\ chatReducer(chatReducer(prevState, lastAction), lastAction) =
         chatReducer(prevState, lastAction)

\* CLEAR_HISTORY was applied to a loading state with messages, an image, an
\* affinity and a session.
C18_Witness ==
  /\ lastAction.type = "CLEAR_HISTORY"
  /\ prevState.isLoading
  /\ prevState.messages # <<>>
  /\ prevState.currentImageUrl = "img1"
  /\ prevState.affinityLevel = 50
  /\ prevState.sessionId = "s1"
  /\ state = initialState

\* The requests that are on their way or back.
InFlight(r) == requests[r].status \in {"pending", "settled"}

\* C19: a request sent while sessionId is null carries no session_id, and
\* every request sent after a response with session_id s was applied, and
\* before the next clearHistory, carries session_id = s.
C19_SessionReused ==
  \A r \in RequestIds :
    InFlight(r) =>
      /\ requests[r].sessionIdAtSend = Null => requests[r].session_id = Undefined
      /\ \A s \in requests[r].appliedAtSend : requests[r].session_id = s

\* C20: every sendMessage call whose request completed, by a response or by
\* a failure, is followed by a state in which isLoading and
\* isGeneratingImage are both false.
C20_LoadingEnds ==
  (\E r \in RequestIds : requests[r].status = "settled")
    ~> (~state.isLoading /\ ~state.isGeneratingImage)

\* A failed request was taken up and the flags are down.
C20_Witness ==
  /\ lastAction.type = "SEND_MESSAGE_ERROR"
  /\ prevState.isLoading
  /\ \E r \in RequestIds : requests[r].status = "done"
  /\ ~state.isLoading
  /\ ~state.isGeneratingImage

\* C21: while the isLoading prop of MessageInput is true, no step calls
\* onSend: whatever the text in the field, neither the send button nor the
\* Enter key posts a request or records an onSend call.
C21_NoSendWhileLoading ==
  [][state.isLoading =>
       /\ lastOnSend' = lastOnSend
       /\ \A r \in RequestIds : ~Posted(r)]_vars

\* The field holds a text that is not blank while isLoading is true and
\* after an earlier send, so that the Enter key finds something to send.
C21_Witness ==
  /\ state.isLoading
  /\ trim(message) # <<>>
  /\ lastOnSend.called

\* C22: CharacterImageDisplay renders exactly one of the skeleton, the image
\* and the placeholder: the skeleton and no image while isGenerating is true,
\* whatever imageUrl is; the image when isGenerating is false and imageUrl is
\* not empty; the placeholder and no image when isGenerating is false and
\* imageUrl is empty.
C22_OneOfThreeViews ==
  view.rendered =>
    /\ Cardinality({e \in {"skeleton", "img", "placeholder"} : view[e]}) = 1
    /\ view.isGenerating => view.skeleton /\ ~view.img
    /\ ~view.isGenerating /\ Truthy(view.imageUrl) => view.img
    /\ ~view.isGenerating /\ ~Truthy(view.imageUrl) => view.placeholder /\ ~view.img

\* C23: category is defined for every emotion of the enumerated set and gives
\* exactly one of the four categories: positive for happy and excited, neutral
\* for neutral and thoughtful, negative for sad and angry, expressive for
\* surprised and embarrassed; the same emotion always gets the same category.
C23_CategoryTotal ==
  \A u \in Users :
    Evaluated(u) =>
      LET e == curr[u].emotion
          c == category(e)
      IN /\ e \in Emotions
         /\ c \in Categories
         /\ c = "positive" <=> e \in {"happy", "excited"}
         /\ c = "neutral" <=> e \in {"neutral", "thoughtful"}
         /\ c = "negative" <=> e \in {"sad", "angry"}
         /\ c = "expressive" <=> e \in {"surprised", "embarrassed"}
         /\ prev[u].emotion = e => category(prev[u].emotion) = c
         /\ category(prev[u].emotion) \in Categories

\* An excited character after a happy one: one category, no regeneration.
C23_Witness ==
  /\ Evaluated("u1")
  /\ prev["u1"].emotion = "happy"
  /\ curr["u1"].emotion = "excited"
  /\ prev["u1"].scene = curr["u1"].scene
  /\ AffinityDelta("u1") = 1
  /\ ~decision["u1"].regenerateImage

\* A generation call of user u succeeds in the step and registers its image
\* under key k.
PutAt(u, k) ==
  /\ pc[u] = "ImageGenerating"
  /\ lookupKey[u] = k
  /\ nextImage' # nextImage

\* C24: after put(k, v) every get(k) returns v until the next put to k,
\* whatever is got and put under other keys meanwhile, and no entry is ever
\* removed: a put leaves v under k, a step changes the cache only by a put
\* and then only the entry of its key, and a cache hit hands out the entry
\* of its key.
C24_PutThenGet ==
  [][/\ \A u \in Users :
          /\ PutAt(u, lookupKey[u]) =>
               /\ get(imageCache', lookupKey[u]) = image'[u]
               /\ image'[u] # NoImage
          /\ pc[u] = "EvaluatingTriggers" /\ pc'[u] = "ImageCacheHit" =>
               /\ image'[u] = get(imageCache, CacheKey(curr[u].emotion, curr[u].scene))
               /\ image'[u] # NoImage
     /\ imageCache' # imageCache =>
          \E u \in Users :
            /\ PutAt(u, lookupKey[u])
            /\ \A k \in CacheKeys \ {lookupKey[u]} : get(imageCache', k) = get(imageCache, k)]_vars

\* The first image is still under its key after a second image was put under
\* another key.
C24_Witness ==
  \E k1, k2 \in CacheKeys :
    /\ k1 # k2
    /\ get(imageCache, k1) = 1
    /\ get(imageCache, k2) = 2

C26_FailedSaveStillSucceeds ==
  \A u \in Users :
    Finished(u) /\ wrote[u] = "failed" =>
      /\ result[u].success
      /\ result[u].dialogue = curr[u].dialogue
      /\ result[u].emotion = curr[u].emotion
      /\ result[u].scene = curr[u].scene
      /\ result[u].image = image[u]
      /\ result[u].affinity_level = Clamp(curr[u].affinity_level)
      /\ ResponseOk(StatusOf(pc[u]))
      /\ store[u].affinity_level = storeAtStart[u].affinity_level

\* A turn that computed affinity 100 for a user at 0 is done after its save
\* failed.
C26_Witness ==
  \E u \in Users :
    /\ Finished(u)
    /\ wrote[u] = "failed"
    /\ result[u].success
    /\ result[u].affinity_level = 100
    /\ store[u].affinity_level = 0

\* The turn of user u runs and began without a session.
StartedSession(u) == tid[u] # 0 /\ ~sess[u].active

C28_SendsOnlyValidMessages ==
  [][/\ \A r \in RequestIds :
          Posted(r) => Len(requests'[r].message) \in 1..MAX_MESSAGE_LENGTH
     /\ (lastAction'.type = "SEND_MESSAGE_START" /\ Len(state'.messages) > Len(state.messages))
          => Len(lastAction'.userMessage) \in 1..MAX_MESSAGE_LENGTH]_vars

\* C29: within one turn the image generation call is invoked at most twice,
\* the second time only after the first call failed, and never again after
\* the second call failed.
C29_AtMostTwoGenerationCalls ==
  /\ [](\A u \in Users :
          /\ genCalls[u] <= 2
          /\ genFailed[u] <= genCalls[u]
          /\ genCalls[u] = 2 => genFailed[u] >= 1)
  /\ [][\A u \in Users :
          genCalls'[u] > genCalls[u] =>
            /\ genCalls'[u] = genCalls[u] + 1
            /\ genFailed[u] = genCalls[u]
            /\ genCalls[u] < 2]_vars

\* Both calls of a turn failed and the turn is done.
C29_Witness ==
  \E u \in Users :
    /\ Finished(u)
    /\ genCalls[u] = 2
    /\ genFailed[u] = 2

\* C30: a failed long-term-memory write is retried at most 3 times, and the
\* retries of a turn's write always end: with the write done, or given up
\* after the last attempt failed.
C30_MemoryRetriesEnd ==
  /\ [](\A t \in TurnIds : memTask[t].retries <= 3)
  /\ [][\A t \in TurnIds :
          memTask'[t].state = "abandoned" /\ memTask[t].state # "abandoned" =>
            memTask[t].retries = 3]_vars
  /\ \A t \in TurnIds :
       (memTask[t].state = "pending") ~> (memTask[t].state \in {"written", "abandoned"})

\* A write was given up after its third retry failed.
C30_Witness ==
  \E t \in TurnIds : memTask[t].state = "abandoned" /\ memTask[t].retries = 3

\* C31: within one turn the Affinity Store is written at most once, at the
\* end of the turn: the record of a user changes only in the step from
\* PersistingAffinity to Done, also in the first turn of a new session.
C31_StoreWrittenAtTurnEnd ==
  [][\A u \in Users :
       store'[u] # store[u] => pc[u] = "PersistingAffinity" /\ pc'[u] = "Done"]_vars

\* The Image Cache is looked up for the turn of user u in the step.
LooksUp(u) == lookup[u] = "none" /\ lookup'[u] # "none"

\* The image generation is called for the turn of user u in the step.
Generates(u) == genCalls'[u] > genCalls[u]

\* C32: in every turn neither the Image Cache lookup nor a generation call
\* happens before the model response of the turn was received and parsed or
\* replaced by the fallback record, and both use the emotion and the scene
\* of that record.
C32_ImageStepAfterParse ==
  /\ [](\A u \in Users :
          modelOutcome[u] # "payload" => lookup[u] = "none" /\ genCalls[u] = 0)
  /\ [][\A u \in Users :
          LooksUp(u) \/ Generates(u) =>
            /\ modelOutcome[u] = "payload"
            /\ pc[u] \in {"EvaluatingTriggers", "ImageGenerating"}
            /\ curr'[u] = curr[u]
            /\ lookupKey'[u] = <<category(curr[u].emotion), curr[u].scene>>
            /\ imageCache' # imageCache =>
                 imageCache' = put(imageCache, lookupKey'[u], image'[u])]_vars

\* A turn whose model output did not parse looked the cache up under the
\* key of the fallback record, away from the scene it started in.
C32_Witness ==
  \E u \in Users :
    /\ degraded[u]
    /\ prev[u].scene = "cafe"
    /\ lookup[u] = "miss"
    /\ lookupKey[u] = <<"neutral", "indoor">>
    /\ genCalls[u] = 1

\* C33: an Image Cache entry is written only by a successful generation on
\* a cache miss: a turn that is not to regenerate, a cache hit and a failed
\* generation leave the cache as it is.
C33_CacheWrittenOnlyByGeneration ==
  [][/\ imageCache' # imageCache =>
          \E u \in Users :
            /\ Generates(u)
            /\ decision[u].regenerateImage
            /\ lookup[u] = "miss"
            /\ genFailed'[u] = genFailed[u]
            /\ nextImage' = nextImage + 1
     /\ \A u \in Users :
          \/ pc'[u] \in {"ImageSkipped", "ImageCacheHit"} /\ pc[u] # pc'[u]
          \/ genFailed'[u] > genFailed[u]
          => imageCache' = imageCache]_vars

\* A turn that had an image before is done after both generation calls
\* failed, and the cache has nothing under its key.
C33_Witness ==
  \E u \in Users :
    /\ Finished(u)
    /\ lookup[u] = "miss"
    /\ genFailed[u] = 2
    /\ prev[u].image # NoImage
    /\ get(imageCache, lookupKey[u]) = NoImage

\* C34: in every state reached from initialState by a sequence of
\* SEND_MESSAGE_START, SEND_MESSAGE_SUCCESS, SEND_MESSAGE_ERROR and
\* CLEAR_HISTORY, isLoading equals isGeneratingImage.
C34_FlagsEqual == state.isLoading = state.isGeneratingImage

\* Both flags are up after the second message of a session was sent, and
\* both were down before.
C34_Witness ==
  /\ lastAction.type = "SEND_MESSAGE_START"
  /\ prevState.sessionId # Null
  /\ ~prevState.isLoading /\ ~prevState.isGeneratingImage
  /\ state.isLoading /\ state.isGeneratingImage

\* The requests that are neither answered nor failed, or whose answer or
\* failure sendMessage has not taken up yet.
RequestsInFlight == {r \in RequestIds : InFlight(r)}

\* C35: with messages sent only through ChatPage, at most one conversation
\* request is in flight at any time: a request is posted only when no
\* request is in flight.
C35_OneRequestInFlight ==
  /\ [](Cardinality(RequestsInFlight) <= 1)
  /\ [][(\E r \in RequestIds : Posted(r)) => RequestsInFlight = {}]_vars

\* The second request is in flight after the first one was answered.
C35_Witness ==
  /\ requests[1].status = "done"
  /\ requests[2].status = "pending"
  /\ Len(state.messages) = 3
  /\ state.isLoading

\* C36: a response or a failure of a request issued before clearHistory
\* does not change the state after the clear: from clearHistory on the state
\* is initialState until the next sendMessage call.
C36_ClearedUntilNextSend ==
  [][lastAction.type = "CLEAR_HISTORY" =>
       /\ state = initialState
       /\ state' # state => lastAction'.type = "SEND_MESSAGE_START"]_vars

\* The roles of the first n messages of the log that are role.
CountRole(role, n) == Cardinality({i \in 1..n : state.messages[i].role = role})

\* C37: in every state of the chat client every message of role agent in
\* the log has a message of role user before it, and, in the log and in
\* each of its prefixes, the agent messages are no more than the user
\* messages.
C37_AgentFollowsUser ==
  \A n \in 1..Len(state.messages) :
    /\ state.messages[n].role = "agent" =>
         \E i \in 1..(n - 1) : state.messages[i].role = "user"
    /\ CountRole("agent", n) <= CountRole("user", n)

\* C38: SEND_MESSAGE_START, SEND_MESSAGE_SUCCESS and SEND_MESSAGE_ERROR
\* never remove, reorder or modify a message of the log: the log before the
\* action is a prefix of the log after it.
C38_LogAppendOnly ==
  lastAction.type \in {"SEND_MESSAGE_START", "SEND_MESSAGE_SUCCESS", "SEND_MESSAGE_ERROR"} =>
    /\ Len(prevState.messages) <= Len(state.messages)
    /\ \A i \in 1..Len(prevState.messages) : state.messages[i] = prevState.messages[i]

\* An answer was appended to a log that held the user's message.
C38_Witness ==
  /\ lastAction.type = "SEND_MESSAGE_SUCCESS"
  /\ Len(prevState.messages) = 1
  /\ prevState.messages[1].role = "user"
  /\ Len(state.messages) = 2
  /\ state.messages[1] = prevState.messages[1]
  /\ state.messages[2].role = "agent"

\* C39: a sessionId that is not null becomes null only by CLEAR_HISTORY:
\* SEND_MESSAGE_START and SEND_MESSAGE_ERROR leave sessionId as it is, and
\* SEND_MESSAGE_SUCCESS sets it to the session_id of the response applied.
C39_SessionIdChanges ==
  /\ lastAction.type \in {"SEND_MESSAGE_START", "SEND_MESSAGE_ERROR"} =>
       state.sessionId = prevState.sessionId
  /\ lastAction.type = "SEND_MESSAGE_SUCCESS" =>
       /\ state.sessionId = lastAction.response.session_id
       /\ state.sessionId # Null
  /\ prevState.sessionId # Null /\ state.sessionId = Null =>
       lastAction.type = "CLEAR_HISTORY"

\* A failure left the session of the state as it was.
C39_Witness ==
  /\ lastAction.type = "SEND_MESSAGE_ERROR"
  /\ prevState.sessionId = "s1"
  /\ state.sessionId = "s1"
  /\ prevState.isLoading

====
